---- MODULE Spec2Model ----
(***************************************************************************)
(* MMTP/TLV demuxer front end (libavformat/mmtp.c): the resynchronizer,    *)
(* the TLV packet framer, the signalling section parser and the NIT, AMT   *)
(* and HCfB parsers, as one state machine over a byte stream.              *)
(***************************************************************************)
EXTENDS Integers, Sequences, FiniteSets, TLC

\* ---------------------------------------------------------------- bounds
\* tlv_resync's scan ceiling. The program uses 10*1024*1024; the model
\* scales it down so that streams longer than the ceiling can be enumerated.
resync_limit == 3
\* most stream-loop entries (NIT) / service entries (AMT) in a synthesized table
MaxEntries == 3
\* longest descriptor range (network descriptors, per-entry descriptors)
MaxDescLen == 1
\* most calls of mmtp_tlv_read_packet the caller makes on one stream
MaxCalls == 3
\* most packets in a stream that is a concatenation of packets
MaxPackets == 2

\* ------------------------------------------------------- wire constants
TLV_SYNC_BYTE == 127
TLV_PACKET_IPV4 == 1
TLV_PACKET_IPV6 == 2
TLV_PACKET_IP_HEADER_COMPRESSED == 3
TLV_PACKET_SIGNALLING == 254
TLV_PACKET_NULL == 255
TLV_TABLE_NIT_ACTUAL == 64
TLV_TABLE_NIT_OTHER == 65
TLV_TABLE_EXTENDED == 254
TLV_TABLE_EXTENDED_AMT == 0

\* ------------------------------------------------------------- helpers
Min(a, b) == IF a < b THEN a ELSE b
Max(a, b) == IF a > b THEN a ELSE b

RECURSIVE Pow2(_)
Pow2(n) == IF n = 0 THEN 1 ELSE 2 * Pow2(n - 1)

RECURSIVE SumSeq(_)
SumSeq(s) == IF s = <<>> THEN 0 ELSE Head(s) + SumSeq(Tail(s))

RECURSIVE Concat(_)
Concat(ss) == IF ss = <<>> THEN <<>> ELSE Head(ss) \o Concat(Tail(ss))

Fill(n, b) == [k \in 1..n |-> b]

\* sequences over S of length 0..n
SeqUpTo(S, n) == UNION {[1..k -> S] : k \in 0..n}

\* ------------------------------------------- bit reader (GetBitContext)
\* bit k of the buffer, most significant bit of each byte first; the bytes
\* after the payload are the zeroed padding of the allocation
BitAt(buf, k) ==
    IF k \div 8 < Len(buf) THEN (buf[(k \div 8) + 1] \div Pow2(7 - (k % 8))) % 2 ELSE 0

RECURSIVE get_bits(_, _, _)
get_bits(buf, idx, n) ==
    IF n = 0 THEN 0 ELSE 2 * get_bits(buf, idx, n - 1) + BitAt(buf, idx + n - 1)

\* x & 0x3ff
Mask10(x) == x % 1024

\* --------------------------------------------------- stream synthesizer
\* The byte streams the demuxer is run on are synthesized from field values
\* and encoded to bytes; the parsers below decode the bytes again.
BE16(v) == <<(v \div 256) % 256, v % 256>>

\* 4 reserved bits (all ones) followed by a 12-bit field
Field12(v) == BE16(15 * 4096 + (v % 4096))

\* s truncated or zero-padded to n bytes
Resize(s, n) == [k \in 1..n |-> IF k <= Len(s) THEN s[k] ELSE 0]

\* the 8 bytes every signalling section starts with
SigHeaderBytes(tid, ssi, sl, ext) ==
    <<tid, ssi * 128 + 7 * 16 + ((sl \div 256) % 16), sl % 256>>
        \o BE16(ext) \o <<3 * 64 + 1, 0, 0>>

\* one TLV stream loop entry: the length field says dlField, dlPhys
\* descriptor bytes follow
NitEntryBytes(k, dlField, dlPhys) ==
    BE16(k) \o BE16(1) \o Field12(dlField) \o Fill(dlPhys, TLV_SYNC_BYTE)

NitLoopSum(dls) == SumSeq([k \in 1..Len(dls) |-> 6 + dls[k]])

NitTsll(dls, p) == NitLoopSum(dls) + p.tsllD
NitSl(ndl, dls, p) == 13 + ndl + NitTsll(dls, p) + p.slD

\* A NIT section. dls are the entries' descriptor lengths; p perturbs one
\* length: p.mut = k > 0 raises entry k's length field by one (the bytes stay),
\* p.tsllD is added to tlv_stream_loop_length, p.slD to section_length and
\* p.plD to the payload length.
NitPayload(tid, ssi, ndl, dls, p) ==
    LET sl  == NitSl(ndl, dls, p)
        raw == SigHeaderBytes(tid, ssi, sl, 7)
                 \o Field12(ndl) \o Fill(ndl, TLV_SYNC_BYTE)
                 \o Field12(NitTsll(dls, p))
                 \o Concat([k \in 1..Len(dls) |->
                        NitEntryBytes(k, dls[k] + (IF p.mut = k THEN 1 ELSE 0), dls[k])])
                 \o <<0, 0, 0, 0>>
    IN  Resize(raw, sl + 3 + p.plD)

NoPerturb == [mut |-> 0, tsllD |-> 0, slD |-> 0, plD |-> 0, numD |-> 0, sllD |-> 0]

NitPerturbs(dls) ==
    {NoPerturb}
      \cup {[NoPerturb EXCEPT !.mut = k] : k \in 1..Len(dls)}
      \cup {[NoPerturb EXCEPT !.tsllD = d] : d \in (IF dls = <<>> THEN {1, 5, 6} ELSE {-1, 1, 5, 6})}
      \cup {[NoPerturb EXCEPT !.slD = d] : d \in {-1, 1}}
      \cup {[NoPerturb EXCEPT !.plD = d] : d \in {-1, 1}}

\* the address record of an AMT service entry, ip = 0 (v4) or 1 (v6)
AmtRecordBytes(ip) ==
    IF ip = 0
    THEN <<192, 0, 2, 1, 24, 198, 51, 100, 1, 16>>
    ELSE Fill(16, 0) \o <<64>> \o Fill(16, 0) \o <<48>>

AmtMinLen(ip) == IF ip = 1 THEN 34 ELSE 10

\* one AMT service entry: e.ip the ip_version, e.extra the trailing reserved bytes
AmtEntryBytes(k, e, sllField) ==
    BE16(100 + k) \o BE16(e.ip * 32768 + 31 * 1024 + (sllField % 1024))
        \o AmtRecordBytes(e.ip) \o Fill(e.extra, TLV_SYNC_BYTE)

AmtLoopSum(es) == SumSeq([k \in 1..Len(es) |-> 4 + AmtMinLen(es[k].ip) + es[k].extra])

AmtSl(es, p) == 11 + AmtLoopSum(es) + p.slD

\* An AMT section. p.numD is added to num_of_service_id, p.sllD to the last
\* entry's service_loop_length field, p.slD to section_length, p.plD to the
\* payload length; the bytes stay.
AmtPayload(ssi, es, p) ==
    LET sl  == AmtSl(es, p)
        raw == SigHeaderBytes(TLV_TABLE_EXTENDED, ssi, sl, TLV_TABLE_EXTENDED_AMT)
                 \o BE16(((Len(es) + p.numD) % 1024) * 64 + 63)
                 \o Concat([k \in 1..Len(es) |->
                        AmtEntryBytes(k, es[k],
                            AmtMinLen(es[k].ip) + es[k].extra
                              + (IF k = Len(es) THEN p.sllD ELSE 0))])
                 \o <<0, 0, 0, 0>>
    IN  Resize(raw, sl + 3 + p.plD)

AmtPerturbs(es) ==
    {NoPerturb}
      \cup {[NoPerturb EXCEPT !.numD = 1]}
      \cup {[NoPerturb EXCEPT !.sllD = d] : d \in (IF es = <<>> THEN {} ELSE {-1, 1})}
      \cup {[NoPerturb EXCEPT !.slD = d] : d \in {-1, 1}}
      \cup {[NoPerturb EXCEPT !.plD = d] : d \in {-1, 1}}

\* a TLV packet: header with the declared length, then the bytes present
PacketBytes(ptype, len, body) == <<TLV_SYNC_BYTE, ptype>> \o BE16(len) \o body

\* the packet that follows the first one in a synthesized stream
TailBytes(t) == IF t = 0 THEN <<>> ELSE PacketBytes(TLV_PACKET_NULL, 0, <<>>)

GenDefault ==
    [kind |-> "none", garbage |-> 0, ptype |-> 0, len |-> 0, avail |-> 0, tail |-> 0,
     tid |-> 0, ssi |-> 0, sl |-> 0, ext |-> 0, ndl |-> 0, tsll |-> 0,
     dls |-> <<>>, ents |-> <<>>, p |-> NoPerturb, pkts |-> <<>>]

MkStream(g, ptype, len, body, t) ==
    Fill(g, 0) \o PacketBytes(ptype, len, body) \o TailBytes(t)

\* garbage only, or garbage and then a Null packet (resync cases)
ScanStreams ==
    {[bytes |-> Fill(g, 0) \o TailBytes(t),
      gen   |-> [GenDefault EXCEPT !.kind = "scan", !.garbage = g, !.tail = t]] :
        g \in 0..(resync_limit + 2), t \in {0, 1}}

\* packets of the skipped types, of unknown types, HCfB packets and short
\* signalling packets; the payload may be cut short by the end of the stream
PlainStreams ==
    {[bytes |-> MkStream(g, ty, len, SubSeq(<<18, 52, 86, TLV_SYNC_BYTE>>, 1, av), t),
      gen   |-> [GenDefault EXCEPT !.kind = "plain", !.garbage = g, !.ptype = ty,
                                   !.len = len, !.avail = av, !.tail = t]] :
        g \in {0, 1},
        ty \in {TLV_PACKET_IPV4, TLV_PACKET_IPV6, TLV_PACKET_NULL,
                TLV_PACKET_IP_HEADER_COMPRESSED, TLV_PACKET_SIGNALLING, 0, 4},
        len \in 0..4, av \in 0..4, t \in {0, 1}}

\* four header bytes with any first byte and any type, then up to two bytes:
\* the inputs tlv_read_packet is run on directly
FramerStreams ==
    {[bytes |-> <<b0, ty>> \o BE16(len) \o SubSeq(<<18, 52>>, 1, av),
      gen   |-> [GenDefault EXCEPT !.kind = "framer", !.ptype = ty,
                                   !.len = len, !.avail = av]] :
        b0 \in {0, TLV_SYNC_BYTE - 1, TLV_SYNC_BYTE},
        ty \in {TLV_PACKET_IPV4, TLV_PACKET_IPV6, TLV_PACKET_NULL,
                TLV_PACKET_IP_HEADER_COMPRESSED, TLV_PACKET_SIGNALLING, 0, 4},
        len \in 0..2, av \in 0..2}

\* signalling packets with a bare section: any table id, no table body
RawSigStreams ==
    {[bytes |-> MkStream(0, TLV_PACKET_SIGNALLING, L,
                         Resize(SigHeaderBytes(tid, ssi, sl, ext), L), 1),
      gen   |-> [GenDefault EXCEPT !.kind = "rawsig", !.ptype = TLV_PACKET_SIGNALLING,
                                   !.len = L, !.avail = L, !.tail = 1, !.tid = tid,
                                   !.ssi = ssi, !.sl = sl, !.ext = ext]] :
        tid \in {0, TLV_TABLE_NIT_ACTUAL, TLV_TABLE_NIT_OTHER, TLV_TABLE_NIT_OTHER + 1,
                 TLV_TABLE_EXTENDED, TLV_TABLE_EXTENDED + 1},
        ssi \in {0, 1}, ext \in {0, 1, 256},
        L \in {11, 12, 14, 16}, sl \in {0, 8, 9, 10, 11, 13, 14, 4095}}

\* table id, section_syntax_indicator and perturbation of a synthesized
\* section: the lengths are perturbed only in sections with the first table
\* id and the indicator set
SectionHeads(tids, perturbs) ==
    {[tid |-> tid, ssi |-> ssi, p |-> NoPerturb] : tid \in tids, ssi \in {0, 1}}
      \cup {[tid |-> CHOOSE t \in tids : \A u \in tids : t <= u, ssi |-> 1, p |-> p] :
                p \in perturbs}

NitStreams ==
    {[bytes |-> MkStream(0, TLV_PACKET_SIGNALLING,
                         Len(NitPayload(x.tid, x.ssi, x.ndl, x.dls, x.p)),
                         NitPayload(x.tid, x.ssi, x.ndl, x.dls, x.p), 1),
      gen   |-> [GenDefault EXCEPT !.kind = "nit", !.ptype = TLV_PACKET_SIGNALLING,
                                   !.len = Len(NitPayload(x.tid, x.ssi, x.ndl, x.dls, x.p)),
                                   !.avail = Len(NitPayload(x.tid, x.ssi, x.ndl, x.dls, x.p)),
                                   !.tail = 1, !.tid = x.tid, !.ssi = x.ssi,
                                   !.sl = NitSl(x.ndl, x.dls, x.p), !.ext = 7,
                                   !.ndl = x.ndl, !.tsll = NitTsll(x.dls, x.p),
                                   !.dls = x.dls, !.p = x.p]] :
        x \in UNION {
            {[tid |-> h.tid, ssi |-> h.ssi, ndl |-> ndl, dls |-> dls, p |-> h.p] :
                h \in SectionHeads({TLV_TABLE_NIT_ACTUAL, TLV_TABLE_NIT_OTHER},
                                   NitPerturbs(dls)),
                ndl \in 0..MaxDescLen} :
            dls \in SeqUpTo(0..MaxDescLen, MaxEntries)}}

\* NIT sections without entries whose section_length is at or beyond the
\* 10 bits the NIT parser keeps: 1021, 1022, 1029 and 1037
BigSectionStreams ==
    {[bytes |-> MkStream(0, TLV_PACKET_SIGNALLING,
                         Len(NitPayload(TLV_TABLE_NIT_ACTUAL, 1, 0, <<>>, p)),
                         NitPayload(TLV_TABLE_NIT_ACTUAL, 1, 0, <<>>, p), 1),
      gen   |-> [GenDefault EXCEPT !.kind = "nit", !.ptype = TLV_PACKET_SIGNALLING,
                                   !.len = Len(NitPayload(TLV_TABLE_NIT_ACTUAL, 1, 0, <<>>, p)),
                                   !.avail = Len(NitPayload(TLV_TABLE_NIT_ACTUAL, 1, 0, <<>>, p)),
                                   !.tail = 1, !.tid = TLV_TABLE_NIT_ACTUAL, !.ssi = 1,
                                   !.sl = NitSl(0, <<>>, p), !.ext = 7, !.p = p]] :
        p \in {[NoPerturb EXCEPT !.slD = d] : d \in {1008, 1009, 1016, 1024}}}

AmtEntrySpecs == [ip : {0, 1}, extra : 0..MaxDescLen]

AmtStreams ==
    {[bytes |-> MkStream(0, TLV_PACKET_SIGNALLING,
                         Len(AmtPayload(x.ssi, x.es, x.p)),
                         AmtPayload(x.ssi, x.es, x.p), 1),
      gen   |-> [GenDefault EXCEPT !.kind = "amt", !.ptype = TLV_PACKET_SIGNALLING,
                                   !.len = Len(AmtPayload(x.ssi, x.es, x.p)),
                                   !.avail = Len(AmtPayload(x.ssi, x.es, x.p)),
                                   !.tail = 1, !.tid = TLV_TABLE_EXTENDED, !.ssi = x.ssi,
                                   !.sl = AmtSl(x.es, x.p), !.ext = TLV_TABLE_EXTENDED_AMT,
                                   !.ents = x.es, !.p = x.p]] :
        x \in UNION {
            {[ssi |-> h.ssi, es |-> es, p |-> h.p] :
                h \in SectionHeads({TLV_TABLE_EXTENDED}, AmtPerturbs(es))} :
            es \in SeqUpTo(AmtEntrySpecs, MaxEntries - 1)}}

\* the packets a concatenated stream is made of: a Null packet without
\* payload, an IPv4 packet and an HCfB packet whose payloads hold 0x7F bytes
\* (the HCfB payload reads as the header of a Null packet), an HCfB packet, a
\* signalling packet with an empty NIT, an HCfB packet its parser rejects, and
\* a packet of an unknown type with a 0x7F byte in its payload
PacketMenu ==
    {[ptype |-> TLV_PACKET_NULL, body |-> <<>>, good |-> TRUE],
     [ptype |-> TLV_PACKET_IPV4, body |-> <<TLV_SYNC_BYTE, TLV_PACKET_NULL>>, good |-> TRUE],
     [ptype |-> TLV_PACKET_IP_HEADER_COMPRESSED,
      body |-> <<TLV_SYNC_BYTE, TLV_PACKET_NULL, 0, 0>>, good |-> TRUE],
     [ptype |-> TLV_PACKET_IP_HEADER_COMPRESSED, body |-> <<18, 52, 86>>, good |-> TRUE],
     [ptype |-> TLV_PACKET_SIGNALLING,
      body |-> NitPayload(TLV_TABLE_NIT_ACTUAL, 1, 0, <<>>, NoPerturb), good |-> TRUE],
     [ptype |-> TLV_PACKET_IP_HEADER_COMPRESSED, body |-> <<18>>, good |-> FALSE],
     [ptype |-> 4, body |-> <<18, TLV_SYNC_BYTE>>, good |-> FALSE]}

\* streams that are the concatenation of one to MaxPackets packets
SeqStreams ==
    {[bytes |-> Concat([k \in 1..Len(ps) |->
                    PacketBytes(ps[k].ptype, Len(ps[k].body), ps[k].body)]),
      gen   |-> [GenDefault EXCEPT !.kind = "seq", !.pkts = ps]] :
        ps \in SeqUpTo(PacketMenu, MaxPackets) \ {<<>>}}

Streams ==
    ScanStreams \cup PlainStreams \cup RawSigStreams \cup NitStreams
        \cup BigSectionStreams \cup AmtStreams \cup SeqStreams

\* ------------------------------------------------------------------ state
VARIABLES
    stream,         \* the bytes behind the AVIOContext
    gen,            \* how the stream was synthesized (ghost, never read by the demuxer)
    pos,            \* AVIOContext: stream position
    eof_reached,    \* AVIOContext: a read has hit the end of the stream
    api,            \* the demuxer callback the caller runs: read_header or read_packet
    calls,          \* callbacks invoked so far
    result,         \* what the last callback returned to the caller
    log,            \* the calls of tlv_read_packet that have returned, in order (ghost)
    pc,             \* position inside the running callback
    i,              \* tlv_resync: loop counter
    scan0,          \* tlv_resync: position at entry (ghost)
    ret,            \* return value of the function that returned last
    err,            \* the check that produced a failure (ghost)
    frame,          \* tlv_read_packet: position at entry, header fields (ghost)
    invoked,        \* parsers called during this tlv_read_packet, in order (ghost)
    pkt,            \* struct TLVPacket
    live,           \* allocations not yet freed
    nalloc,         \* successful av_mallocz calls
    nfree,          \* av_free calls
    sig,            \* struct TLVSignallingPacket
    gb_index,       \* GetBitContext: bit position
    minimum_required_length,
    left_length,    \* tlv_parse_nit_packet: loop variable
    nit,            \* tlv_parse_nit_packet: locals, and the entries parsed (ghost)
    amt,            \* tlv_parse_amt_packet: locals, and the mappings decoded (ghost)
    hcfb            \* tlv_parse_hcfb_packet: decoded fields

vars == <<stream, gen, pos, eof_reached, api, calls, result, log, pc, i, scan0, ret, err, frame,
          invoked, pkt, live, nalloc, nfree, sig, gb_index, minimum_required_length,
          left_length, nit, amt, hcfb>>

inputVars == <<stream, gen>>
ioVars    == <<pos, eof_reached>>
callVars  == <<api, calls, result, log>>
memVars   == <<pkt, live, nalloc, nfree>>
parseVars == <<sig, gb_index, minimum_required_length, left_length, nit, amt, hcfb>>

NoPacket == [pkt_type |-> 0, pkt_data_size |-> 0, pkt_data |-> <<>>, has_data |-> FALSE]
NoFrame  == [start |-> 0, hdr |-> 0, sync |-> 0, type |-> 0, len |-> 0, avail |-> 0,
             post_skip_pos |-> 0]
NoSig    == [table_id |-> 0, section_syntax_indicator |-> 0, section_length |-> 0,
             table_id_extension |-> 0, version_number |-> 0,
             current_next_indicator |-> 0, section_number |-> 0,
             last_section_number |-> 0]
NoNit    == [network_descriptors_length |-> 0, tlv_stream_loop_length |-> 0,
             entries |-> <<>>]
NoAmt    == [num_of_service_id |-> 0, i |-> 0, mappings |-> <<>>, last_read |-> -1]
NoHcfb   == [cid |-> 0, sn |-> 0, cid_header_type |-> 0]

Init ==
    /\ \E s \in Streams : stream = s.bytes /\ gen = s.gen
    /\ pos = 0 /\ eof_reached = FALSE
    /\ api = "none" /\ calls = 0 /\ result = "none" /\ log = <<>>
    /\ pc = "idle" /\ i = 0 /\ scan0 = 0 /\ ret = "OK" /\ err = "none"
    /\ frame = NoFrame /\ invoked = <<>>
    /\ pkt = NoPacket /\ live = {} /\ nalloc = 0 /\ nfree = 0
    /\ sig = NoSig /\ gb_index = 0 /\ minimum_required_length = 0
    /\ left_length = 0 /\ nit = NoNit /\ amt = NoAmt /\ hcfb = NoHcfb

\* ------------------------------------------------------- byte source
\* bytes left between the position and the end of the stream
Avail(p) == IF p < Len(stream) THEN Len(stream) - p ELSE 0

\* avio_read(pb, buf, n): the bytes read; fewer than n at the end of the stream
avio_read(p, n) == SubSeq(stream, p + 1, p + Min(n, Avail(p)))

\* avio_skip(pb, n): the position the source reports. Inside the stream it is
\* p + n; past its end the source may seek past the end, stop at the end, or fail (-1).
avio_skip(p, n) ==
    IF p + n <= Len(stream) THEN {p + n} ELSE {p + n, Max(p, Len(stream)), -1}

\* avio_seek(pb, off, SEEK_CUR) on a seekable source: the new position
avio_seek_cur(p, off) == p + off

\* ------------------------------------------------------------ callbacks
\* The callbacks keep no state of their own between calls; all they share is
\* the AVIOContext. The caller either runs mmtp_tlv_read_header once or calls
\* mmtp_tlv_read_packet repeatedly.

\* mmtp_tlv_read_header is entered: first tlv_resync of its loop
mmtp_tlv_read_header ==
    /\ pc = "idle" /\ api = "none"
    /\ api' = "read_header" /\ calls' = calls + 1 /\ result' = "none"
    /\ pc' = "tlv_resync" /\ i' = 0 /\ scan0' = pos
    /\ UNCHANGED <<inputVars, ioVars, log, ret, err, frame, invoked, memVars, parseVars>>

\* mmtp_tlv_read_packet is entered: tlv_resync
mmtp_tlv_read_packet ==
    /\ pc = "idle" /\ api \in {"none", "read_packet"} /\ calls < MaxCalls
    /\ api' = "read_packet" /\ calls' = calls + 1 /\ result' = "none"
    /\ pc' = "tlv_resync" /\ i' = 0 /\ scan0' = pos
    /\ UNCHANGED <<inputVars, ioVars, log, ret, err, frame, invoked, memVars, parseVars>>

\* (mutant) the loop of mmtp_tlv_read_header ends after any packet
ReadHeaderReturns_Always(r) == TRUE

\* the test after each call in mmtp_tlv_read_header: ret < 0
ReadHeaderReturns(r) == r # "OK"

\* mmtp_tlv_read_header after tlv_resync: return a negative result, else frame
ReadHeaderAfterResync ==
    /\ pc = "resync_ret" /\ api = "read_header"
    /\ IF ReadHeaderReturns(ret)
       THEN /\ result' = ret /\ pc' = "closed"
       ELSE /\ result' = result /\ pc' = "tlv_read_packet"
    /\ UNCHANGED <<inputVars, ioVars, api, calls, log, i, scan0, ret, err, frame, invoked,
                   memVars, parseVars>>

\* mmtp_tlv_read_packet after tlv_resync: return a negative result, else frame
ReadPacketAfterResync ==
    /\ pc = "resync_ret" /\ api = "read_packet"
    /\ IF ret # "OK"
       THEN /\ result' = ret /\ pc' = "idle"
       ELSE /\ result' = result /\ pc' = "tlv_read_packet"
    /\ UNCHANGED <<inputVars, ioVars, api, calls, log, i, scan0, ret, err, frame, invoked,
                   memVars, parseVars>>

\* what tlv_read_packet has just done: where its header started, where it
\* left the cursor, what it returned, and during which callback
Returned == [start |-> frame.start, end |-> pos, ret |-> ret, err |-> err, call |-> calls]

\* mmtp_tlv_read_header after tlv_read_packet: return a negative result, loop otherwise
ReadHeaderAfterPacket ==
    /\ pc = "read_ret" /\ api = "read_header"
    /\ log' = Append(log, Returned)
    /\ IF ReadHeaderReturns(ret)
       THEN /\ result' = ret /\ pc' = "closed" /\ i' = i /\ scan0' = scan0
       ELSE /\ result' = result /\ pc' = "tlv_resync" /\ i' = 0 /\ scan0' = pos
    /\ UNCHANGED <<inputVars, ioVars, api, calls, ret, err, frame, invoked,
                   memVars, parseVars>>

\* mmtp_tlv_read_packet after tlv_read_packet: return its result
ReadPacketAfterPacket ==
    /\ pc = "read_ret" /\ api = "read_packet"
    /\ result' = ret /\ pc' = "idle"
    /\ log' = Append(log, Returned)
    /\ UNCHANGED <<inputVars, ioVars, api, calls, i, scan0, ret, err, frame, invoked,
                   memVars, parseVars>>

\* ------------------------------------------------------------ tlv_resync
\* (mutant) the loop runs once more than the ceiling
ResyncLoopGoesOn_OneMore(k) == k <= resync_limit

\* the loop condition of the scan
ResyncLoopGoesOn(k) == k < resync_limit

\* (mutant) end of stream is never noticed
ResyncSeesEof_Never(got) == FALSE

\* avio_feof after avio_r8: true when the read found no byte
ResyncSeesEof(got) == ~got

\* (mutant) no rewind after the sync byte was read
ResyncRewind_None(p) == p

\* the position after the sync byte was read at p - 1 and the cursor rewound
ResyncRewind(p) == avio_seek_cur(p, -1)

\* one iteration of the scan loop: avio_r8, avio_feof, the sync test
ResyncStep ==
    /\ pc = "tlv_resync" /\ ResyncLoopGoesOn(i)
    /\ LET got  == Avail(pos) > 0
           byte == IF got THEN stream[pos + 1] ELSE 0
       IN  IF ResyncSeesEof(got)
           THEN /\ pos' = pos /\ eof_reached' = TRUE
                /\ ret' = "AVERROR_EOF" /\ err' = "EndOfStream"
                /\ pc' = "resync_ret" /\ i' = i
           ELSE IF byte = TLV_SYNC_BYTE
           THEN /\ pos' = ResyncRewind(pos + 1) /\ eof_reached' = FALSE
                /\ ret' = "OK" /\ err' = "none"
                /\ pc' = "resync_ret" /\ i' = i
           ELSE /\ pos' = (IF got THEN pos + 1 ELSE pos) /\ eof_reached' = ~got
                /\ ret' = ret /\ err' = err
                /\ pc' = pc /\ i' = i + 1
    /\ UNCHANGED <<inputVars, callVars, scan0, frame, invoked, memVars, parseVars>>

\* the scan loop ran resync_limit times without a sync byte
ResyncGiveUp ==
    /\ pc = "tlv_resync" /\ ~ResyncLoopGoesOn(i)
    /\ ret' = "AVERROR_INVALIDDATA" /\ err' = "SyncNotFound"
    /\ pc' = "resync_ret"
    /\ UNCHANGED <<inputVars, ioVars, callVars, i, scan0, frame, invoked, memVars,
                   parseVars>>

\* ------------------------------------------------------- tlv_read_packet
\* (mutant) the length read little-endian
AV_RB16_LittleEndian(b, k) == b[k + 1] * 256 + b[k]

\* the big-endian 16-bit value at b[k]
AV_RB16(b, k) == b[k] * 256 + b[k + 1]

\* (mutant) the default branch skips the packet instead of failing
ParserFor_DefaultSkips(t) ==
    IF t = TLV_PACKET_IP_HEADER_COMPRESSED THEN "hcfb"
    ELSE IF t = TLV_PACKET_SIGNALLING THEN "sig"
    ELSE "skip"

\* (mutant) Null packets are handed to a parser
ParserFor_NullParsed(t) ==
    IF t \in {TLV_PACKET_IP_HEADER_COMPRESSED, TLV_PACKET_NULL} THEN "hcfb"
    ELSE IF t = TLV_PACKET_SIGNALLING THEN "sig"
    ELSE IF t \in {TLV_PACKET_IPV4, TLV_PACKET_IPV6} THEN "skip"
    ELSE "unknown"

\* the switch on packet_type: the parser chosen, "skip" for the types without
\* one, "unknown" for the default branch
ParserFor(t) ==
    IF t = TLV_PACKET_IP_HEADER_COMPRESSED THEN "hcfb"
    ELSE IF t = TLV_PACKET_SIGNALLING THEN "sig"
    ELSE IF t \in {TLV_PACKET_IPV4, TLV_PACKET_IPV6, TLV_PACKET_NULL} THEN "skip"
    ELSE "unknown"

\* (mutant) a declared length of zero is treated like any other
PacketIsEmpty_Never(packet_length) == FALSE

\* the test of the declared length: nothing follows the header
PacketIsEmpty(packet_length) == packet_length = 0

\* (mutant) only a negative result of the skip is an error
SkipAdvanced_NotNegative(post_skip_pos, curr_pos, packet_length) == post_skip_pos >= 0

\* the test of the position the skip reports
SkipAdvanced(post_skip_pos, curr_pos, packet_length) ==
    ~(post_skip_pos # packet_length + curr_pos)

\* (mutant) a short read of the payload is not noticed
PayloadComplete_AnyRead(len, packet_length) == TRUE

\* the test of the number of payload bytes read
PayloadComplete(len, packet_length) == ~(len # packet_length)

\* tlv_read_packet returns r without having allocated anything
ReadPacketReturns(p, eof, r, e, f) ==
    /\ pos' = p /\ eof_reached' = eof
    /\ ret' = r /\ err' = e /\ frame' = f
    /\ pc' = "read_ret" /\ invoked' = <<>>
    /\ UNCHANGED memVars

\* tlv_read_packet goes on with a TLVPacket allocated: to the parser, or to
\* the cleanup label when the buffer or the payload is missing
ReadPacketGoesOn(p, eof, r, e, f, next, data, hasData) ==
    /\ pos' = p /\ eof_reached' = eof
    /\ ret' = r /\ err' = e /\ frame' = f
    /\ pc' = next
    /\ invoked' = IF next = "free" THEN <<>> ELSE <<next>>
    /\ pkt' = [pkt_type |-> f.type, pkt_data_size |-> f.len, pkt_data |-> data,
               has_data |-> hasData]
    /\ live' = live \cup (IF hasData THEN {"tlv_packet", "pkt_data"} ELSE {"tlv_packet"})
    /\ nalloc' = nalloc + (IF hasData THEN 2 ELSE 1)
    /\ nfree' = nfree

\* the header read, the dispatch on the type, the skip or the allocation and
\* the payload read (up to the call of the parser)
TlvReadPacket ==
    /\ pc = "tlv_read_packet"
    /\ sig' = NoSig /\ gb_index' = 0 /\ minimum_required_length' = 0
    /\ left_length' = 0 /\ nit' = NoNit /\ amt' = NoAmt /\ hcfb' = NoHcfb
    /\ UNCHANGED <<inputVars, callVars, i, scan0>>
    /\ LET tlv_header == avio_read(pos, 4)
           len        == Len(tlv_header)
           p4         == pos + len
           f0         == [NoFrame EXCEPT !.start = pos, !.hdr = len]
       IN
       IF len # 4
       THEN ReadPacketReturns(p4, TRUE, "AVERROR_EOF", "TruncatedHeader", f0)
       ELSE
       LET packet_type   == tlv_header[2]
           packet_length == AV_RB16(tlv_header, 3)
           f == [f0 EXCEPT !.sync = tlv_header[1], !.type = packet_type,
                           !.len = packet_length, !.avail = Avail(p4)]
           parser_func == ParserFor(packet_type)
       IN
       IF tlv_header[1] # TLV_SYNC_BYTE
       THEN ReadPacketReturns(p4, eof_reached, "AVERROR_INVALIDDATA", "BadSync", f)
       ELSE IF parser_func = "unknown"
       THEN ReadPacketReturns(p4, eof_reached, "AVERROR_INVALIDDATA", "UnknownPacketType", f)
       ELSE IF PacketIsEmpty(packet_length)
       THEN ReadPacketReturns(p4, eof_reached, "OK", "none", f)
       ELSE IF parser_func = "skip"
       THEN \E post_skip_pos \in avio_skip(p4, packet_length) :
              LET fs == [f EXCEPT !.post_skip_pos = post_skip_pos] IN
              IF ~SkipAdvanced(post_skip_pos, p4, packet_length)
              THEN ReadPacketReturns(IF post_skip_pos < 0 THEN p4 ELSE post_skip_pos,
                                     eof_reached,
                                     IF post_skip_pos < 0 THEN "AVERROR_EIO" ELSE "AVERROR_EOF",
                                     "ShortSkip", fs)
              ELSE ReadPacketReturns(post_skip_pos, FALSE, "OK", "none", fs)
       ELSE \E ok_packet \in BOOLEAN, ok_data \in BOOLEAN :
              IF ~ok_packet
              THEN ReadPacketReturns(p4, eof_reached, "AVERROR_ENOMEM", "NoMemory", f)
              ELSE IF ~ok_data
              THEN ReadPacketGoesOn(p4, eof_reached, "AVERROR_ENOMEM", "NoMemory", f,
                                    "free", <<>>, FALSE)
              ELSE
              LET data == avio_read(p4, packet_length) IN
              IF ~PayloadComplete(Len(data), packet_length)
              THEN ReadPacketGoesOn(p4 + Len(data), TRUE, "AVERROR_EOF", "TruncatedPayload",
                                    f, "free", data, TRUE)
              ELSE ReadPacketGoesOn(p4 + Len(data), eof_reached, "OK", "none",
                                    f, parser_func, data, TRUE)

\* (mutant) the payload buffer is not freed
Freed_PacketOnly(p) == {"tlv_packet"}

\* the buffers the cleanup frees: pkt_data if it was allocated, and the TLVPacket
Freed(p) == {"tlv_packet"} \cup (IF p.has_data THEN {"pkt_data"} ELSE {})

\* the label tlv_packet_read_error: both buffers are freed, ret is returned
TlvFree ==
    /\ pc = "free"
    /\ live' = live \ Freed(pkt)
    /\ nfree' = nfree + Cardinality(Freed(pkt))
    /\ pkt' = NoPacket /\ nalloc' = nalloc
    /\ pc' = "read_ret"
    /\ UNCHANGED <<inputVars, ioVars, callVars, i, scan0, ret, err, frame, invoked, parseVars>>

\* a parser returns r to tlv_read_packet
ParserReturns(r, e) == ret' = r /\ err' = e /\ pc' = "free"

\* ------------------------------------------------- tlv_parse_hcfb_packet
\* (mutant) the 4-bit field is read before the 12-bit field
HcfbFields_SnFirst(buf) ==
    [cid             |-> get_bits(buf, 4, 12),
     sn              |-> get_bits(buf, 0, 4),
     cid_header_type |-> get_bits(buf, 16, 8)]

\* the three get_bits calls: 12 bits, 4 bits, 8 bits
HcfbFields(buf) ==
    [cid             |-> get_bits(buf, 0, 12),
     sn              |-> get_bits(buf, 12, 4),
     cid_header_type |-> get_bits(buf, 16, 8)]

HcfbParse ==
    /\ pc = "hcfb"
    /\ IF pkt.pkt_type # TLV_PACKET_IP_HEADER_COMPRESSED \/ pkt.pkt_data_size < 3
       THEN /\ ParserReturns("AVERROR_INVALIDDATA", "TooShort")
            /\ UNCHANGED <<hcfb, gb_index>>
       ELSE /\ hcfb' = HcfbFields(pkt.pkt_data)
            /\ gb_index' = 24
            /\ ParserReturns("OK", "none")
    /\ UNCHANGED <<inputVars, ioVars, callVars, i, scan0, frame, invoked, memVars, sig,
                   minimum_required_length, left_length, nit, amt>>

\* ------------------------------------------- tlv_parse_signalling_packet
\* (mutant) the three bytes already consumed are not subtracted
SectionLengthFits_NoHeader(section_length, pkt_data_size) ==
    ~(section_length > pkt_data_size)

\* the check of section_length against the physical packet size
SectionLengthFits(section_length, pkt_data_size) ==
    ~(section_length > pkt_data_size - 3)

\* (mutant) the default branch hands the section to the NIT parser
TableParserFor_DefaultNit(table_id) ==
    IF table_id = TLV_TABLE_EXTENDED THEN "ext" ELSE "nit"

\* the switch on table_id
TableParserFor(table_id) ==
    IF table_id \in {TLV_TABLE_NIT_ACTUAL, TLV_TABLE_NIT_OTHER} THEN "nit"
    ELSE IF table_id = TLV_TABLE_EXTENDED THEN "ext"
    ELSE "unknown"

SigParse ==
    /\ pc = "sig"
    /\ UNCHANGED <<inputVars, ioVars, callVars, i, scan0, frame, memVars,
                   minimum_required_length, left_length, nit, amt, hcfb>>
    /\ IF pkt.pkt_type # TLV_PACKET_SIGNALLING \/ pkt.pkt_data_size < 8 + 4
       THEN /\ ParserReturns("AVERROR_INVALIDDATA", "TooShort")
            /\ UNCHANGED <<sig, gb_index, invoked>>
       ELSE
       LET buf  == pkt.pkt_data
           sig3 == [NoSig EXCEPT !.table_id = get_bits(buf, 0, 8),
                                 !.section_syntax_indicator = get_bits(buf, 8, 1),
                                 !.section_length = get_bits(buf, 12, 12)]
           parser_func == TableParserFor(sig3.table_id)
       IN
       IF ~SectionLengthFits(sig3.section_length, pkt.pkt_data_size)
       THEN /\ ParserReturns("AVERROR_INVALIDDATA", "SectionLengthOverflow")
            /\ sig' = sig3 /\ gb_index' = 24 /\ UNCHANGED invoked
       ELSE IF parser_func = "unknown"
       THEN /\ ParserReturns("AVERROR_INVALIDDATA", "UnknownTableId")
            /\ sig' = sig3 /\ gb_index' = 24 /\ UNCHANGED invoked
       ELSE /\ sig' = [sig3 EXCEPT !.table_id_extension = get_bits(buf, 24, 16),
                                   !.version_number = get_bits(buf, 42, 5),
                                   !.current_next_indicator = get_bits(buf, 47, 1),
                                   !.section_number = get_bits(buf, 48, 8),
                                   !.last_section_number = get_bits(buf, 56, 8)]
            /\ gb_index' = 64
            /\ pc' = parser_func /\ invoked' = Append(invoked, parser_func)
            /\ UNCHANGED <<ret, err>>

\* --------------------------------------------- tlv_parse_extended_packet
ExtParse ==
    /\ pc = "ext"
    /\ IF sig.table_id_extension = TLV_TABLE_EXTENDED_AMT
       THEN /\ pc' = "amt" /\ invoked' = Append(invoked, "amt")
            /\ UNCHANGED <<ret, err>>
       ELSE /\ ParserReturns("AVERROR_INVALIDDATA", "UnknownExtension")
            /\ UNCHANGED invoked
    /\ UNCHANGED <<inputVars, ioVars, callVars, i, scan0, frame, memVars, parseVars>>

\* -------------------------------------------------- tlv_parse_nit_packet
\* a table parser returns r, its cursor at bit idx
TableReturns(r, e, idx) == ParserReturns(r, e) /\ gb_index' = idx

\* a - b in unsigned int. A wrapped result (a < b) is a - b + 2^32, which is
\* beyond the model checker's integers; it is represented by a - b + 2^31,
\* which like it lies far above every length of the model.
UnsignedSub(a, b) == IF a >= b THEN a - b ELSE (2147483647 - (b - a)) + 1

\* (mutant) only the 6 fixed bytes of an entry are checked
NitEntryFits_FixedPartOnly(left, descriptors_length) == ~(left < 6)

\* the entry check of the TLV stream loop
NitEntryFits(left, descriptors_length) == ~(left < 6 + descriptors_length)

\* (mutant) an entry of exactly 6 bytes is left unparsed
NitLoopGoesOn_Above6(left) == left > 6

\* the loop condition of the TLV stream loop
NitLoopGoesOn(left) == left >= 6

\* (mutant) tlv_stream_loop_length is compared with the whole section_length
NitLoopFits_WholeSection(section_length, min, tlv_stream_loop_length) ==
    ~(section_length < min \/ tlv_stream_loop_length > section_length)

\* the check of tlv_stream_loop_length against what is left of section_length
NitLoopFits(section_length, min, tlv_stream_loop_length) ==
    ~(section_length < min \/ tlv_stream_loop_length > section_length - min)

\* (mutant) the section_syntax_indicator is not looked at
SectionSyntaxMissing_Never(section_syntax_indicator) == FALSE

\* the first test of both table parsers: !pkt->section_syntax_indicator
SectionSyntaxMissing(section_syntax_indicator) == section_syntax_indicator = 0

\* from the section_length mask to the check of tlv_stream_loop_length
NitHeader ==
    /\ pc = "nit"
    /\ UNCHANGED <<inputVars, ioVars, callVars, i, scan0, frame, invoked, memVars, amt, hcfb>>
    /\ LET buf == pkt.pkt_data
           section_length == Mask10(sig.section_length)
       IN
       /\ sig' = [sig EXCEPT !.section_length = section_length]
       /\ IF SectionSyntaxMissing(sig.section_syntax_indicator)
             \/ section_length > 1021 \/ section_length < 13
          THEN /\ TableReturns("AVERROR_INVALIDDATA", "TooShort", gb_index)
               /\ minimum_required_length' = 13
               /\ UNCHANGED <<left_length, nit>>
          ELSE
          LET network_descriptors_length == Mask10(get_bits(buf, gb_index + 4, 12))
              idx1 == gb_index + 16
          IN
          IF section_length < 13 \/ network_descriptors_length > section_length - 13
          THEN /\ TableReturns("AVERROR_INVALIDDATA", "NetworkDescriptorsOverflow", idx1)
               /\ minimum_required_length' = 13
               /\ nit' = [nit EXCEPT !.network_descriptors_length = network_descriptors_length]
               /\ UNCHANGED left_length
          ELSE
          LET min1 == 13 + network_descriptors_length
              idx2 == idx1 + network_descriptors_length * 8
              tlv_stream_loop_length == Mask10(get_bits(buf, idx2 + 4, 12))
              idx3 == idx2 + 16
              nit1 == [nit EXCEPT !.network_descriptors_length = network_descriptors_length,
                                  !.tlv_stream_loop_length = tlv_stream_loop_length]
          IN
          /\ minimum_required_length' = min1
          /\ nit' = nit1
          /\ IF ~NitLoopFits(section_length, min1, tlv_stream_loop_length)
             THEN /\ TableReturns("AVERROR_INVALIDDATA", "StreamLoopOverflow", idx3)
                  /\ UNCHANGED left_length
             ELSE /\ left_length' = tlv_stream_loop_length
                  /\ gb_index' = idx3
                  /\ pc' = "nit_loop"
                  /\ UNCHANGED <<ret, err>>

\* one iteration of the TLV stream loop
NitEntry ==
    /\ pc = "nit_loop" /\ NitLoopGoesOn(left_length)
    /\ UNCHANGED <<inputVars, ioVars, callVars, i, scan0, frame, invoked, memVars, sig,
                   minimum_required_length, amt, hcfb>>
    /\ LET buf == pkt.pkt_data
           entry == [tlv_stream_id       |-> get_bits(buf, gb_index, 16),
                     original_network_id |-> get_bits(buf, gb_index + 16, 16),
                     descriptors_length  |-> Mask10(get_bits(buf, gb_index + 36, 12)),
                     at                  |-> gb_index \div 8,
                     left_before         |-> left_length]
           idx1 == gb_index + 48
       IN
       IF ~NitEntryFits(left_length, entry.descriptors_length)
       THEN /\ TableReturns("AVERROR_INVALIDDATA", "EntryOverflow", idx1)
            /\ UNCHANGED <<left_length, nit>>
       ELSE /\ gb_index' = idx1 + entry.descriptors_length * 8
            /\ left_length' = UnsignedSub(left_length, 6 + entry.descriptors_length)
            /\ nit' = [nit EXCEPT !.entries = Append(@, entry)]
            /\ UNCHANGED <<pc, ret, err>>

\* the TLV stream loop ends: return 0
NitReturn ==
    /\ pc = "nit_loop" /\ ~NitLoopGoesOn(left_length)
    /\ ParserReturns("OK", "none")
    /\ UNCHANGED <<inputVars, ioVars, callVars, i, scan0, frame, invoked, memVars, parseVars>>

\* -------------------------------------------------- tlv_parse_amt_packet
\* byte k (from 0) of the payload buffer; the padding after it is zeroed
ByteAt(buf, k) == IF k < Len(buf) THEN buf[k + 1] ELSE 0
Bytes(buf, k, n) == [j \in 1..n |-> ByteAt(buf, k + j - 1)]

\* (mutant) the v6 branch without the advance over the destination address,
\* as in the v4 branch
AmtMapping_Ipv6MaskNotAdvanced(buf, loc, service_id, ip_version) ==
    IF ip_version = 1
    THEN [service_id |-> service_id, type |-> 1,
          src_address |-> Bytes(buf, loc, 16), src_address_mask |-> ByteAt(buf, loc + 16),
          dst_address |-> Bytes(buf, loc + 17, 16), dst_address_mask |-> ByteAt(buf, loc + 17),
          last |-> loc + 32]
    ELSE [service_id |-> service_id, type |-> 0,
          src_address |-> Bytes(buf, loc, 4), src_address_mask |-> ByteAt(buf, loc + 4),
          dst_address |-> Bytes(buf, loc + 5, 4), dst_address_mask |-> ByteAt(buf, loc + 5),
          last |-> loc + 8]

\* the address record read at buff_location: the mapping, and the offset of
\* the last byte read
AmtMapping(buf, loc, service_id, ip_version) ==
    IF ip_version = 1
    THEN [service_id |-> service_id, type |-> 1,
          src_address |-> Bytes(buf, loc, 16), src_address_mask |-> ByteAt(buf, loc + 16),
          dst_address |-> Bytes(buf, loc + 17, 16), dst_address_mask |-> ByteAt(buf, loc + 33),
          last |-> loc + 33]
    ELSE [service_id |-> service_id, type |-> 0,
          src_address |-> Bytes(buf, loc, 4), src_address_mask |-> ByteAt(buf, loc + 4),
          dst_address |-> Bytes(buf, loc + 5, 4), dst_address_mask |-> ByteAt(buf, loc + 5),
          last |-> loc + 8]

\* (mutant) only the address-record minimum is checked, not the section budget
AmtRecordFits_NoBudget(section_length, min, service_loop_length, ip_version) ==
    ~(service_loop_length < (IF ip_version = 1 THEN 34 ELSE 10))

\* (mutant) only the section budget is checked, not the address-record minimum
AmtRecordFits_NoMinimum(section_length, min, service_loop_length, ip_version) ==
    ~(section_length < min)

\* the two checks on service_loop_length
AmtRecordFits(section_length, min, service_loop_length, ip_version) ==
    ~(section_length < min \/ service_loop_length < (IF ip_version = 1 THEN 34 ELSE 10))

\* (mutant) the cursor is advanced over the address record only
AmtNextEntry_RecordOnly(idx, service_loop_length, ip_version) ==
    idx + (IF ip_version = 1 THEN 34 ELSE 10) * 8

\* skip_bits_long at the end of an iteration: the cursor after the entry
AmtNextEntry(idx, service_loop_length, ip_version) == idx + service_loop_length * 8

AmtHeader ==
    /\ pc = "amt"
    /\ UNCHANGED <<inputVars, ioVars, callVars, i, scan0, frame, invoked, memVars, sig,
                   left_length, nit, hcfb>>
    /\ minimum_required_length' = 11
    /\ IF SectionSyntaxMissing(sig.section_syntax_indicator) \/ sig.section_length < 11
       THEN /\ TableReturns("AVERROR_INVALIDDATA", "TooShort", gb_index)
            /\ UNCHANGED amt
       ELSE /\ amt' = [amt EXCEPT !.num_of_service_id = get_bits(pkt.pkt_data, gb_index, 10),
                                  !.i = 0]
            /\ gb_index' = gb_index + 16
            /\ pc' = "amt_loop"
            /\ UNCHANGED <<ret, err>>

\* one iteration of the service loop
AmtEntry ==
    /\ pc = "amt_loop" /\ amt.i < amt.num_of_service_id
    /\ UNCHANGED <<inputVars, ioVars, callVars, i, scan0, frame, invoked, memVars, sig,
                   left_length, nit, hcfb>>
    /\ LET buf  == pkt.pkt_data
           min1 == minimum_required_length + 4
       IN
       IF sig.section_length < min1
       THEN /\ TableReturns("AVERROR_INVALIDDATA", "ServiceHeaderOverflow", gb_index)
            /\ minimum_required_length' = min1
            /\ UNCHANGED amt
       ELSE
       LET service_id          == get_bits(buf, gb_index, 16)
           ip_version          == get_bits(buf, gb_index + 16, 1)
           service_loop_length == get_bits(buf, gb_index + 22, 10)
           idx1 == gb_index + 32
           min2 == min1 + service_loop_length
           amt_mapping == AmtMapping(buf, idx1 \div 8, service_id, ip_version)
       IN
       /\ minimum_required_length' = min2
       /\ IF ~AmtRecordFits(sig.section_length, min2, service_loop_length, ip_version)
          THEN /\ TableReturns("AVERROR_INVALIDDATA",
                               IF sig.section_length < min2 THEN "ServiceLoopOverflow"
                               ELSE "AddressRecordTooShort", idx1)
               /\ UNCHANGED amt
          ELSE /\ amt' = [amt EXCEPT !.i = @ + 1,
                                     !.mappings = Append(@,
                                         [m |-> amt_mapping, at |-> gb_index \div 8,
                                          service_loop_length |-> service_loop_length]),
                                     !.last_read = amt_mapping.last]
               /\ gb_index' = AmtNextEntry(idx1, service_loop_length, ip_version)
               /\ UNCHANGED <<pc, ret, err>>

\* the service loop ends: return 0
AmtReturn ==
    /\ pc = "amt_loop" /\ ~(amt.i < amt.num_of_service_id)
    /\ ParserReturns("OK", "none")
    /\ UNCHANGED <<inputVars, ioVars, callVars, i, scan0, frame, invoked, memVars, parseVars>>

\* ------------------------------------------------------- specification
Next ==
    \/ mmtp_tlv_read_header
    \/ mmtp_tlv_read_packet
    \/ ReadHeaderAfterResync
    \/ ReadPacketAfterResync
    \/ ReadHeaderAfterPacket
    \/ ReadPacketAfterPacket
    \/ ResyncStep
    \/ ResyncGiveUp
    \/ TlvReadPacket
    \/ TlvFree
    \/ HcfbParse
    \/ SigParse
    \/ ExtParse
    \/ NitHeader
    \/ NitEntry
    \/ NitReturn
    \/ AmtHeader
    \/ AmtEntry
    \/ AmtReturn

Spec == Init /\ [][Next]_vars

\* tlv_read_packet on its own: one call at the start of a stream, which need
\* not begin with a sync byte (no tlv_resync before it)
InitFramer ==
    /\ \E s \in Streams \cup FramerStreams : stream = s.bytes /\ gen = s.gen
    /\ pos = 0 /\ eof_reached = FALSE
    /\ api = "none" /\ calls = 0 /\ result = "none" /\ log = <<>>
    /\ pc = "tlv_read_packet" /\ i = 0 /\ scan0 = 0 /\ ret = "OK" /\ err = "none"
    /\ frame = NoFrame /\ invoked = <<>>
    /\ pkt = NoPacket /\ live = {} /\ nalloc = 0 /\ nfree = 0
    /\ sig = NoSig /\ gb_index = 0 /\ minimum_required_length = 0
    /\ left_length = 0 /\ nit = NoNit /\ amt = NoAmt /\ hcfb = NoHcfb

NextFramer ==
    \/ TlvReadPacket
    \/ TlvFree
    \/ HcfbParse
    \/ SigParse
    \/ ExtParse
    \/ NitHeader
    \/ NitEntry
    \/ NitReturn
    \/ AmtHeader
    \/ AmtEntry
    \/ AmtReturn

SpecFramer == InitFramer /\ [][NextFramer]_vars

\* mmtp_tlv_read_header run on its own: the caller opens the input and lets
\* the callback run to its return; a step that is possible is eventually taken
NextReadHeader ==
    \/ mmtp_tlv_read_header
    \/ ReadHeaderAfterResync
    \/ ReadHeaderAfterPacket
    \/ ResyncStep
    \/ ResyncGiveUp
    \/ TlvReadPacket
    \/ TlvFree
    \/ HcfbParse
    \/ SigParse
    \/ ExtParse
    \/ NitHeader
    \/ NitEntry
    \/ NitReturn
    \/ AmtHeader
    \/ AmtEntry
    \/ AmtReturn

\* the inputs of that run: every stream of the scan, plain, bare-section and
\* concatenated families, and the table sections the parsers accept
ReadHeaderStreams ==
    {s \in Streams : s.gen.kind \in {"nit", "amt"} => s.gen.p = NoPerturb /\ s.gen.ssi = 1}

InitReadHeader ==
    /\ \E s \in ReadHeaderStreams : stream = s.bytes /\ gen = s.gen
    /\ pos = 0 /\ eof_reached = FALSE
    /\ api = "none" /\ calls = 0 /\ result = "none" /\ log = <<>>
    /\ pc = "idle" /\ i = 0 /\ scan0 = 0 /\ ret = "OK" /\ err = "none"
    /\ frame = NoFrame /\ invoked = <<>>
    /\ pkt = NoPacket /\ live = {} /\ nalloc = 0 /\ nfree = 0
    /\ sig = NoSig /\ gb_index = 0 /\ minimum_required_length = 0
    /\ left_length = 0 /\ nit = NoNit /\ amt = NoAmt /\ hcfb = NoHcfb

SpecReadHeader ==
    InitReadHeader /\ [][NextReadHeader]_vars /\ WF_vars(NextReadHeader)

\* =============================================================== claims
\* what the stream holds, read from its bytes and not from the parser's state
\* the payload of the packet framed last
Payload == SubSeq(stream, frame.start + 5, Min(Len(stream), frame.start + 4 + frame.len))
\* its 12-bit section_length field (bytes 1-2 of the payload)
RawSectionLength == (Payload[2] % 16) * 256 + Payload[3]
\* the declared length in the header at position s
HeaderLength(s) == stream[s + 3] * 256 + stream[s + 4]

RecognizedTypes == {TLV_PACKET_IPV4, TLV_PACKET_IPV6, TLV_PACKET_IP_HEADER_COMPRESSED,
                    TLV_PACKET_SIGNALLING, TLV_PACKET_NULL}

\* tlv_parse_signalling_packet was called by this tlv_read_packet and has acted
SigActed ==
    /\ pc \in {"nit", "nit_loop", "ext", "amt", "amt_loop", "free", "read_ret"}
    /\ invoked # <<>> /\ invoked[1] = "sig"

\* a table parser (NIT or AMT) was called by this tlv_read_packet and has acted
TableActed ==
    /\ pc \in {"nit_loop", "amt_loop", "free", "read_ret"}
    /\ Len(invoked) >= 2 /\ invoked[Len(invoked)] \in {"nit", "amt"}

\* C1: a signalling payload of at least 12 bytes whose section_length field
\* exceeds the payload length minus 3 is rejected with AVERROR_INVALIDDATA by
\* tlv_parse_signalling_packet, and no table parser is called, whatever the
\* table_id.
C1_SectionLengthBound ==
    (SigActed /\ Len(Payload) = frame.len /\ frame.len >= 12
        /\ RawSectionLength > frame.len - 3)
    => /\ pc \in {"free", "read_ret"}
       /\ ret = "AVERROR_INVALIDDATA"
       /\ invoked = <<"sig">>

C1_Witness ==
    /\ pc = "free" /\ invoked = <<"sig">> /\ frame.len >= 12
    /\ RawSectionLength > frame.len - 3 /\ RawSectionLength < 4095
    /\ Payload[1] = TLV_TABLE_EXTENDED
    /\ ret = "AVERROR_INVALIDDATA"

\* C2: every read or skip of the NIT and AMT parsers leaves the cursor at a
\* byte offset of at most section_length - 1; the cursor never passes payload
\* length - 4, and the address and mask bytes the AMT parser reads straight
\* from the buffer lie inside the payload.
C2_ParsersStayInPayload ==
    TableActed =>
        /\ gb_index \div 8 <= frame.len - 4
        /\ gb_index > 64 => /\ gb_index \div 8 <= sig.section_length - 1
                            /\ gb_index \div 8 <= RawSectionLength - 1
        /\ amt.last_read <= frame.len - 1

C2_Witness ==
    /\ pc = "amt_loop" /\ amt.i = 2 /\ amt.mappings[2].m.type = 1
    /\ amt.last_read = frame.len - 4 - 1 - amt.mappings[2].service_loop_length + 34

\* C3 as stated: a call of tlv_read_packet on a packet with a recognized type
\* and its whole payload in the stream advances the position by exactly 4 + len.
C3_ConsumesWholePacket ==
    (pc = "read_ret" /\ frame.hdr = 4 /\ stream[frame.start + 1] = TLV_SYNC_BYTE
        /\ stream[frame.start + 2] \in RecognizedTypes
        /\ Len(stream) - (frame.start + 4) >= HeaderLength(frame.start))
    => pos = frame.start + 4 + HeaderLength(frame.start)

\* C3 amended: the same, unless an allocation failed; then the call returns
\* AVERROR(ENOMEM) with only the 4 header bytes consumed.
C3_ConsumesWholePacketUnlessNoMemory ==
    (pc = "read_ret" /\ frame.hdr = 4 /\ stream[frame.start + 1] = TLV_SYNC_BYTE
        /\ stream[frame.start + 2] \in RecognizedTypes
        /\ Len(stream) - (frame.start + 4) >= HeaderLength(frame.start))
    => IF ret = "AVERROR_ENOMEM"
       THEN pos = frame.start + 4
       ELSE pos = frame.start + 4 + HeaderLength(frame.start)

C3_Witness ==
    /\ pc = "read_ret" /\ invoked = <<"sig", "nit">> /\ ret = "AVERROR_INVALIDDATA"
    /\ HeaderLength(frame.start) > 12
    /\ pos = frame.start + 4 + HeaderLength(frame.start)

\* position k (from 0) of the stream holds the sync byte
SyncAt(k) == k < Len(stream) /\ stream[k + 1] = TLV_SYNC_BYTE
\* no sync byte in the n bytes from position s (as far as the stream goes)
NoSyncIn(s, n) == \A k \in 0..(n - 1) : ~SyncAt(s + k)

\* the errors the sub-parsers raise (signalling section, NIT, AMT, HCfB)
SubParserErrors ==
    {"TooShort", "SectionLengthOverflow", "UnknownTableId", "UnknownExtension",
     "NetworkDescriptorsOverflow", "StreamLoopOverflow", "EntryOverflow",
     "ServiceHeaderOverflow", "ServiceLoopOverflow", "AddressRecordTooShort"}

\* C4 as stated: an error raised by a sub-parser is the result for one packet
\* only and does not end the read loop: mmtp_tlv_read_header's loop never
\* returns because a sub-parser rejected a payload while a packet follows.
C4_SubParserErrorDoesNotEndLoop ==
    ~(/\ api = "read_header" /\ pc = "closed"
      /\ invoked # <<>> /\ err \in SubParserErrors
      /\ result = "AVERROR_INVALIDDATA"
      /\ SyncAt(pos))

\* C5: when a sync byte lies k < resync_limit bytes after the position
\* tlv_resync starts at, and none before it, tlv_resync returns 0 with the
\* cursor on that sync byte (unchanged for k = 0).
C5_ResyncStopsAtSync ==
    pc = "resync_ret" =>
        \A k \in 0..(resync_limit - 1) :
            (SyncAt(scan0 + k) /\ NoSyncIn(scan0, k))
            => (ret = "OK" /\ pos = scan0 + k /\ stream[pos + 1] = TLV_SYNC_BYTE)

C5_Witness ==
    /\ pc = "resync_ret" /\ ret = "OK" /\ pos = scan0 + resync_limit - 1
    /\ stream[pos + 1] = TLV_SYNC_BYTE

\* C6: when more than resync_limit bytes follow the position tlv_resync starts
\* at and the first resync_limit of them hold no sync byte, tlv_resync returns
\* AVERROR_INVALIDDATA (sync not found, not end of stream) with the cursor
\* advanced by exactly resync_limit.
C6_ResyncGivesUpAtCeiling ==
    (pc = "resync_ret" /\ Len(stream) - scan0 > resync_limit
        /\ NoSyncIn(scan0, resync_limit))
    => (ret = "AVERROR_INVALIDDATA" /\ err = "SyncNotFound" /\ ~eof_reached
        /\ pos = scan0 + resync_limit)

C6_Witness ==
    /\ pc = "resync_ret" /\ err = "SyncNotFound" /\ pos = scan0 + resync_limit
    /\ SyncAt(pos)

\* C7: tlv_resync returns AVERROR_EOF exactly when the stream ends before a
\* sync byte is found and before resync_limit bytes were read.
C7_ResyncEofIff ==
    pc = "resync_ret" =>
        (ret = "AVERROR_EOF"
            <=> (Avail(scan0) < resync_limit /\ NoSyncIn(scan0, Avail(scan0))))

C7_Witness ==
    /\ pc = "resync_ret" /\ ret = "AVERROR_EOF"
    /\ pos = scan0 + resync_limit - 1 /\ pos = Len(stream)

\* tlv_parse_nit_packet has just returned to tlv_read_packet
NitFinished == pc = "free" /\ invoked = <<"sig", "nit">>

\* the bytes the parsed entries account for
NitEntrySum ==
    SumSeq([k \in 1..Len(nit.entries) |-> 6 + nit.entries[k].descriptors_length])

\* C8 as stated: whenever tlv_parse_nit_packet succeeds, the parsed entries
\* sum exactly to tlv_stream_loop_length, and the length left before each
\* entry was at least 6 plus its descriptors_length.
C8_NitLoopConsumedExactly ==
    (NitFinished /\ ret = "OK")
    => /\ NitEntrySum = nit.tlv_stream_loop_length
       /\ \A k \in 1..Len(nit.entries) :
            nit.entries[k].left_before >= 6 + nit.entries[k].descriptors_length

\* the synthesized NIT section is within budget and its entries sum exactly
\* to tlv_stream_loop_length, but for the perturbation named
NitExactBut(field) ==
    /\ gen.kind = "nit"
    /\ field = "mut" \/ gen.p.mut = 0
    /\ gen.p.tsllD = 0 /\ gen.p.slD >= 0 /\ gen.p.plD >= 0

\* C9 as stated: raising one entry's descriptors_length by 1 in a NIT body
\* whose entries sum exactly to tlv_stream_loop_length makes
\* tlv_parse_nit_packet fail with the entry overflow error; no entry at or
\* after the raised one is accepted.
C9_RaisedLengthAlwaysFails ==
    (NitFinished /\ NitExactBut("mut") /\ gen.p.mut > 0 /\ gen.ssi = 1)
    => /\ ret = "AVERROR_INVALIDDATA" /\ err = "EntryOverflow"
       /\ Len(nit.entries) < gen.p.mut

\* the entries the synthesizer put into the section were parsed, in order and
\* each at its offset
NitParsedAllEntries ==
    /\ Len(nit.entries) = Len(gen.dls)
    /\ \A k \in 1..Len(gen.dls) :
         /\ nit.entries[k].tlv_stream_id = k
         /\ nit.entries[k].descriptors_length = gen.dls[k]
         /\ nit.entries[k].at = 12 + gen.ndl + NitLoopSum(SubSeq(gen.dls, 1, k - 1))

\* C10 as stated: a synthesized NIT section with its length fields within
\* budget and its entries summing exactly to tlv_stream_loop_length is
\* accepted, every entry parsed in order, the remaining loop length 0.
C10_ExactNitSucceeds ==
    (NitFinished /\ NitExactBut("none"))
    => (ret = "OK" /\ NitParsedAllEntries /\ left_length = 0)

\* C10 amended: the same for sections with section_syntax_indicator = 1 and
\* section_length <= 1021.
C10_ExactNitWithSyntaxIndicatorSucceeds ==
    (NitFinished /\ NitExactBut("none") /\ gen.ssi = 1 /\ gen.sl <= 1021)
    => (ret = "OK" /\ NitParsedAllEntries /\ left_length = 0)

C10_Witness ==
    /\ NitFinished /\ gen.p = NoPerturb /\ gen.ssi = 1 /\ gen.ndl = 1
    /\ Len(gen.dls) = 3 /\ gen.dls[3] = 0 /\ gen.dls[1] = 1
    /\ ret = "OK" /\ Len(nit.entries) = 3 /\ left_length = 0

\* tlv_parse_amt_packet was called by this tlv_read_packet and has acted
AmtActed ==
    /\ pc \in {"amt_loop", "free", "read_ret"}
    /\ invoked = <<"sig", "ext", "amt">>

\* tlv_parse_amt_packet has just returned to tlv_read_packet
AmtFinished == pc = "free" /\ invoked = <<"sig", "ext", "amt">>

\* byte k (from 0) of the address record of the service entry whose header
\* starts at payload offset at, as the stream holds it
RecordByte(at, k) == Payload[at + 4 + k + 1]
RecordBytes(at, k, n) == [j \in 1..n |-> RecordByte(at, k + j - 1)]

\* C11 as stated: a service entry with ip_version = 0 is decoded as source
\* address (record bytes 0-3), source mask (byte 4), destination address
\* (bytes 5-8) and destination mask (byte 9): for 192.0.2.1/24 and
\* 198.51.100.1/16 the mapping holds those four values, and the decoded
\* destination mask is the byte that follows the destination address.
C11_Ipv4RecordDecoded ==
    AmtActed =>
        \A k \in 1..Len(amt.mappings) :
            LET e == amt.mappings[k] IN
            e.m.type = 0 =>
                /\ e.m.src_address = RecordBytes(e.at, 0, 4)
                /\ e.m.src_address_mask = RecordByte(e.at, 4)
                /\ e.m.dst_address = RecordBytes(e.at, 5, 4)
                /\ e.m.dst_address_mask = RecordByte(e.at, 9)
                /\ (RecordBytes(e.at, 0, 10) = <<192, 0, 2, 1, 24, 198, 51, 100, 1, 16>>
                    => /\ e.m.src_address = <<192, 0, 2, 1>>
                       /\ e.m.src_address_mask = 24
                       /\ e.m.dst_address = <<198, 51, 100, 1>>
                       /\ e.m.dst_address_mask = 16)

\* C12: a service entry with ip_version = 1 and service_loop_length >= 34 is
\* decoded as source address (record bytes 0-15), source mask (byte 16),
\* destination address (bytes 17-32) and destination mask (byte 33); with
\* all-zero addresses both decoded addresses are 16 zero bytes and both masks
\* are the mask bytes given.
C12_Ipv6RecordDecoded ==
    AmtActed =>
        \A k \in 1..Len(amt.mappings) :
            LET e == amt.mappings[k] IN
            e.m.type = 1 =>
                /\ e.service_loop_length >= 34
                /\ e.m.src_address = RecordBytes(e.at, 0, 16)
                /\ e.m.src_address_mask = RecordByte(e.at, 16)
                /\ e.m.dst_address = RecordBytes(e.at, 17, 16)
                /\ e.m.dst_address_mask = RecordByte(e.at, 33)
                /\ (gen.kind = "amt" /\ k <= Len(gen.ents) /\ gen.ents[k].ip = 1
                        /\ e.at = 10 + AmtLoopSum(SubSeq(gen.ents, 1, k - 1))
                    => /\ e.m.src_address = Fill(16, 0)
                       /\ e.m.src_address_mask = 64
                       /\ e.m.dst_address = Fill(16, 0)
                       /\ e.m.dst_address_mask = 48)

C12_Witness ==
    /\ AmtFinished /\ ret = "OK" /\ Len(amt.mappings) = 1
    /\ amt.mappings[1].m.type = 1 /\ amt.mappings[1].service_loop_length = 34
    /\ amt.mappings[1].m.src_address = Fill(16, 0)
    /\ amt.mappings[1].m.dst_address = Fill(16, 0)
    /\ amt.mappings[1].m.src_address_mask = 64
    /\ amt.mappings[1].m.dst_address_mask = 48
    /\ RecordByte(amt.mappings[1].at, 33) = 48

\* 4 + service_loop_length summed over the first k accepted service entries
AmtAcceptedSum(k) ==
    SumSeq([j \in 1..k |-> 4 + amt.mappings[j].service_loop_length])

\* the synthesized AMT section is exact but for the last entry's
\* service_loop_length field
AmtExactButLoopLength ==
    /\ gen.kind = "amt" /\ gen.ssi = 1 /\ gen.ents # <<>>
    /\ gen.p.numD = 0 /\ gen.p.slD = 0 /\ gen.p.plD = 0

\* C13: every service entry passes two independent checks before an address
\* byte is read: 11 + the sum of (4 + service_loop_length) so far is at most
\* section_length, and service_loop_length is at least 10 (ip_version 0) or
\* 34 (ip_version 1). An entry failing either check fails the whole AMT
\* parse, and the 4-byte entry header is read only after 4 more bytes were
\* shown to fit in section_length.
C13_AmtEntryChecks ==
    AmtActed =>
        /\ \A k \in 1..Len(amt.mappings) :
              /\ 11 + AmtAcceptedSum(k) <= RawSectionLength
              /\ amt.mappings[k].service_loop_length >= AmtMinLen(amt.mappings[k].m.type)
              /\ amt.mappings[k].at + 4 + 4 <= RawSectionLength + 3
              /\ amt.mappings[k].at = 10 + AmtAcceptedSum(k - 1)
        /\ (Len(amt.mappings) = 0 => amt.last_read = -1)
        /\ (amt.last_read >= 0 =>
               amt.last_read < amt.mappings[Len(amt.mappings)].at + 4
                                 + amt.mappings[Len(amt.mappings)].service_loop_length)
        /\ (AmtFinished =>
              /\ (ret = "OK" => Len(amt.mappings) = amt.num_of_service_id)
              /\ (err \in {"ServiceHeaderOverflow", "ServiceLoopOverflow",
                            "AddressRecordTooShort"}
                   => /\ ret = "AVERROR_INVALIDDATA"
                      /\ Len(amt.mappings) < amt.num_of_service_id)
              /\ (err = "ServiceHeaderOverflow"
                   => /\ gb_index \div 8 = 10 + AmtAcceptedSum(Len(amt.mappings))
                      /\ 11 + AmtAcceptedSum(Len(amt.mappings)) + 4 > RawSectionLength)
              /\ (AmtExactButLoopLength /\ gen.p.sllD = 1
                   => /\ ret = "AVERROR_INVALIDDATA" /\ err = "ServiceLoopOverflow"
                      /\ Len(amt.mappings) = Len(gen.ents) - 1)
              /\ (AmtExactButLoopLength /\ gen.p.sllD = -1
                        /\ gen.ents[Len(gen.ents)].extra = 0
                   => /\ ret = "AVERROR_INVALIDDATA" /\ err = "AddressRecordTooShort"
                      /\ Len(amt.mappings) = Len(gen.ents) - 1))

C13_Witness ==
    /\ AmtFinished /\ AmtExactButLoopLength /\ gen.p.sllD = -1
    /\ err = "AddressRecordTooShort" /\ ret = "AVERROR_INVALIDDATA"
    /\ Len(amt.mappings) = 1 /\ amt.num_of_service_id = 2
    /\ minimum_required_length <= RawSectionLength
    /\ amt.last_read < 10 + AmtAcceptedSum(1)

\* C14: tlv_parse_nit_packet enforces a decreasing length budget at each
\* level: it fails when section_length < 13, when
\* network_descriptors_length > section_length - 13, when
\* tlv_stream_loop_length > section_length - 13 - network_descriptors_length
\* and when an entry has 6 + descriptors_length above the remaining loop
\* length; whenever it succeeds,
\* 13 + network_descriptors_length + tlv_stream_loop_length <= section_length.
C14_NitBudgetDecreases ==
    NitFinished =>
        /\ (gen.kind = "nit" =>
              /\ (gen.sl < 13 => ret = "AVERROR_INVALIDDATA")
              /\ (gen.ndl > gen.sl - 13 => ret = "AVERROR_INVALIDDATA")
              /\ (gen.tsll > gen.sl - 13 - gen.ndl => ret = "AVERROR_INVALIDDATA")
              /\ (gen.ssi = 1 /\ gen.sl >= 13 /\ gen.sl <= 1021
                     /\ gen.ndl <= gen.sl - 13
                     /\ gen.tsll > gen.sl - 13 - gen.ndl
                   => err = "StreamLoopOverflow" /\ nit.entries = <<>>))
        /\ (err = "EntryOverflow" => ret = "AVERROR_INVALIDDATA")
        /\ \A k \in 1..Len(nit.entries) :
              6 + nit.entries[k].descriptors_length <= nit.entries[k].left_before
        /\ (ret = "OK" =>
              /\ 13 + nit.network_descriptors_length + nit.tlv_stream_loop_length
                    <= sig.section_length
              /\ sig.section_length <= RawSectionLength
              /\ NitEntrySum <= nit.tlv_stream_loop_length
              /\ nit.network_descriptors_length = Mask10(get_bits(Payload, 68, 12))
              /\ nit.tlv_stream_loop_length
                    = Mask10(get_bits(Payload, 84 + 8 * nit.network_descriptors_length, 12)))

C14_Witness ==
    /\ NitFinished /\ ret = "OK" /\ Len(nit.entries) = 2
    /\ nit.network_descriptors_length = 1
    /\ 13 + nit.network_descriptors_length + nit.tlv_stream_loop_length = RawSectionLength
    /\ NitEntrySum = nit.tlv_stream_loop_length

\* C15 as stated: no NIT section (table_id 0x40 or 0x41) whose 12-bit
\* section_length field, as read by the signalling section parser, is greater
\* than 1021 is ever accepted by the NIT parser.
C15_NitSectionLengthAtMost1021 ==
    (NitFinished /\ Payload[1] \in {TLV_TABLE_NIT_ACTUAL, TLV_TABLE_NIT_OTHER}
        /\ RawSectionLength > 1021)
    => ret # "OK"

\* tlv_read_packet is about to read a header of which all 4 bytes are there
HeaderAhead == pc = "tlv_read_packet" /\ Avail(pos) >= 4

\* the step of tlv_read_packet ends the call after the 4 header bytes, with
\* nothing read, skipped, allocated or parsed
OnlyHeaderConsumed ==
    /\ pos' = pos + 4 /\ eof_reached' = eof_reached
    /\ pc' = "read_ret" /\ invoked' = <<>>
    /\ pkt' = NoPacket /\ live' = live /\ nalloc' = nalloc /\ nfree' = nfree

\* C16: tlv_read_packet accepts a 4-byte header only if byte 0 is 0x7F and
\* byte 1 is one of 0x01, 0x02, 0x03, 0xFE, 0xFF: any other byte 0 fails with
\* the bad-sync error, any other byte 1 with the unknown-packet-type error,
\* whatever the declared length, and in neither case is a payload read,
\* skipped or parsed.
C16_HeaderGate ==
    [][HeaderAhead =>
        /\ (stream[pos + 1] # TLV_SYNC_BYTE
             => /\ ret' = "AVERROR_INVALIDDATA" /\ err' = "BadSync"
                /\ OnlyHeaderConsumed)
        /\ (stream[pos + 1] = TLV_SYNC_BYTE /\ stream[pos + 2] \notin RecognizedTypes
             => /\ ret' = "AVERROR_INVALIDDATA" /\ err' = "UnknownPacketType"
                /\ OnlyHeaderConsumed)
        /\ (stream[pos + 1] = TLV_SYNC_BYTE /\ stream[pos + 2] \in RecognizedTypes
             => err' \notin {"BadSync", "UnknownPacketType"})
      ]_vars

C16_Witness ==
    /\ pc = "read_ret" /\ err = "BadSync" /\ ret = "AVERROR_INVALIDDATA"
    /\ stream[frame.start + 1] = TLV_SYNC_BYTE - 1
    /\ stream[frame.start + 2] = TLV_PACKET_SIGNALLING
    /\ HeaderLength(frame.start) = 2 /\ Len(stream) = frame.start + 6
    /\ pos = frame.start + 4 /\ nalloc = 0

\* C17: for every recognized packet type a declared length of zero is valid:
\* tlv_read_packet returns success after consuming exactly the 4 header
\* bytes, with no skip, no allocation and no sub-parser invocation.
C17_ZeroLengthIsValid ==
    [][(HeaderAhead /\ stream[pos + 1] = TLV_SYNC_BYTE
            /\ stream[pos + 2] \in RecognizedTypes /\ HeaderLength(pos) = 0)
       => (ret' = "OK" /\ err' = "none" /\ OnlyHeaderConsumed)
      ]_vars

C17_Witness ==
    /\ pc = "read_ret" /\ ret = "OK" /\ frame.hdr = 4
    /\ stream[frame.start + 2] = TLV_PACKET_SIGNALLING
    /\ HeaderLength(frame.start) = 0
    /\ pos = frame.start + 4 /\ nalloc = 0 /\ invoked = <<>>

\* the types tlv_read_packet has no parser for
SkippedTypes == {TLV_PACKET_IPV4, TLV_PACKET_IPV6, TLV_PACKET_NULL}

\* C18: framing a packet of type IPv4, IPv6 or Null never allocates a
\* TLVPacket or payload buffer and never invokes a sub-parser, for every
\* declared length and whether or not the skip succeeds; the payload is never
\* materialized.
C18_SkippedTypesNeverMaterialized ==
    [][(HeaderAhead /\ stream[pos + 1] = TLV_SYNC_BYTE
            /\ stream[pos + 2] \in SkippedTypes)
       => /\ pc' = "read_ret" /\ invoked' = <<>>
          /\ pkt' = NoPacket /\ live' = live /\ nalloc' = nalloc /\ nfree' = nfree
      ]_vars

C18_Witness ==
    /\ pc = "read_ret" /\ err = "ShortSkip" /\ frame.hdr = 4
    /\ stream[frame.start + 2] = TLV_PACKET_IPV6
    /\ HeaderLength(frame.start) = 4 /\ Len(stream) = frame.start + 4 + 3
    /\ nalloc = 0 /\ pkt = NoPacket /\ invoked = <<>>

\* tlv_read_packet has returned from a packet of a skipped type with a
\* non-zero declared length
SkipReturned ==
    /\ pc = "read_ret" /\ frame.hdr = 4
    /\ stream[frame.start + 1] = TLV_SYNC_BYTE
    /\ stream[frame.start + 2] \in SkippedTypes
    /\ HeaderLength(frame.start) > 0

\* C19: for a packet of type IPv4, IPv6 or Null with non-zero declared
\* length, tlv_read_packet returns success if and only if the position
\* reported after the skip is the position before it plus the declared
\* length; on any other position the call fails with end-of-stream, on a
\* negative result with the source's error.
C19_SkipVerified ==
    SkipReturned =>
        /\ (ret = "OK"
              <=> frame.post_skip_pos = frame.start + 4 + HeaderLength(frame.start))
        /\ (ret = "OK" => pos = frame.start + 4 + HeaderLength(frame.start))
        /\ (ret # "OK" =>
              /\ err = "ShortSkip"
              /\ ret = (IF frame.post_skip_pos < 0 THEN "AVERROR_EIO" ELSE "AVERROR_EOF"))

C19_Witness ==
    /\ SkipReturned /\ ret = "AVERROR_EOF"
    /\ frame.post_skip_pos = Len(stream)
    /\ frame.post_skip_pos = frame.start + 4 + HeaderLength(frame.start) - 1

\* a sub-parser is running (called and not yet returned)
InSubParser == pc \in {"hcfb", "sig", "ext", "nit", "nit_loop", "amt", "amt_loop"}

\* C20: a sub-parser (signalling or HCfB) is only ever invoked on a fully
\* materialized payload: pkt_data holds exactly declared_length bytes read
\* from the stream and pkt_data_size is declared_length; when fewer payload
\* bytes can be read, tlv_read_packet fails and no sub-parser is invoked.
C20_ParserSeesWholePayload ==
    /\ (InSubParser \/ (pc = "free" /\ invoked # <<>>)) =>
          /\ pkt.has_data
          /\ pkt.pkt_data_size = HeaderLength(frame.start)
          /\ Len(pkt.pkt_data) = HeaderLength(frame.start)
          /\ pkt.pkt_data = SubSeq(stream, frame.start + 5,
                                   frame.start + 4 + HeaderLength(frame.start))
          /\ pkt.pkt_type = stream[frame.start + 2]
          /\ pos = frame.start + 4 + HeaderLength(frame.start)
    /\ (pc \in {"free", "read_ret"} /\ frame.hdr = 4
            /\ stream[frame.start + 1] = TLV_SYNC_BYTE
            /\ stream[frame.start + 2] \in {TLV_PACKET_IP_HEADER_COMPRESSED,
                                             TLV_PACKET_SIGNALLING}
            /\ Len(stream) - (frame.start + 4) < HeaderLength(frame.start)) =>
          /\ ret \in {"AVERROR_EOF", "AVERROR_ENOMEM"}
          /\ invoked = <<>>

C20_Witness ==
    /\ pc = "sig" /\ invoked = <<"sig">> /\ pkt.has_data
    /\ pkt.pkt_data_size = 16 /\ Len(pkt.pkt_data) = 16
    /\ pkt.pkt_data = SubSeq(stream, frame.start + 5, frame.start + 20)
    /\ HeaderLength(frame.start) = 16

\* the table_id_extension field of the payload framed last (bytes 3-4)
RawTableIdExtension == Payload[4] * 256 + Payload[5]

\* tlv_parse_signalling_packet has returned, with whatever it called
SigFinished == pc = "free" /\ invoked # <<>> /\ invoked[1] = "sig"

\* C21: table dispatch is total and closed. A signalling payload of at least
\* 12 bytes that passes the section-length check goes to the NIT parser for
\* table_id 0x40 or 0x41 and to the AMT parser for table_id 0xFE with
\* table_id_extension 0x0000; every other table_id, and 0xFE with any other
\* extension, fails without a table parser being invoked; a payload shorter
\* than 12 bytes fails before any field is read.
C21_TableDispatchClosed ==
    SigFinished =>
        IF frame.len < 12
        THEN /\ ret = "AVERROR_INVALIDDATA" /\ invoked = <<"sig">>
             /\ sig = NoSig /\ gb_index = 0
        ELSE IF RawSectionLength > frame.len - 3
        THEN ret = "AVERROR_INVALIDDATA" /\ invoked = <<"sig">>
        ELSE IF Payload[1] \in {TLV_TABLE_NIT_ACTUAL, TLV_TABLE_NIT_OTHER}
        THEN invoked = <<"sig", "nit">>
        ELSE IF Payload[1] = TLV_TABLE_EXTENDED /\ RawTableIdExtension = TLV_TABLE_EXTENDED_AMT
        THEN invoked = <<"sig", "ext", "amt">>
        ELSE IF Payload[1] = TLV_TABLE_EXTENDED
        THEN /\ ret = "AVERROR_INVALIDDATA" /\ err = "UnknownExtension"
             /\ invoked = <<"sig", "ext">> /\ nit = NoNit /\ amt = NoAmt
        ELSE /\ ret = "AVERROR_INVALIDDATA" /\ err = "UnknownTableId"
             /\ invoked = <<"sig">> /\ nit = NoNit /\ amt = NoAmt

C21_Witness ==
    /\ SigFinished /\ frame.len >= 12 /\ RawSectionLength <= frame.len - 3
    /\ Payload[1] = TLV_TABLE_NIT_OTHER + 1
    /\ ret = "AVERROR_INVALIDDATA" /\ err = "UnknownTableId" /\ invoked = <<"sig">>

\* tlv_parse_hcfb_packet has just returned to tlv_read_packet
HcfbFinished == pc = "free" /\ invoked = <<"hcfb">>

\* the big-endian 16-bit value of payload bytes 0-1
RawHcfbWord == Payload[1] * 256 + Payload[2]

\* C22: tlv_parse_hcfb_packet fails for every payload shorter than 3 bytes
\* and succeeds for every payload of 3 or more, decoding context id = high 12
\* bits of the big-endian 16-bit value of bytes 0-1, sequence number = its
\* low 4 bits, context header type = byte 2; [0x12, 0x34, 0x56] yields
\* context id 0x123, sequence number 0x4, header type 0x56.
C22_HcfbDecode ==
    HcfbFinished =>
        IF frame.len < 3
        THEN ret = "AVERROR_INVALIDDATA" /\ hcfb = NoHcfb
        ELSE /\ ret = "OK"
             /\ hcfb.cid = RawHcfbWord \div 16
             /\ hcfb.sn = RawHcfbWord % 16
             /\ hcfb.cid_header_type = Payload[3]
             /\ (SubSeq(Payload, 1, 3) = <<18, 52, 86>>
                 => hcfb = [cid |-> 291, sn |-> 4, cid_header_type |-> 86])

C22_Witness ==
    /\ HcfbFinished /\ frame.len = 3 /\ Payload = <<18, 52, 86>>
    /\ ret = "OK" /\ hcfb = [cid |-> 291, sn |-> 4, cid_header_type |-> 86]

\* tlv_read_packet holds a TLVPacket: from the allocation to the cleanup label
HoldsPacket == InSubParser \/ pc = "free"

\* C23: on every return path of tlv_read_packet (success, failed allocation
\* of the payload buffer, short payload read, sub-parser error) every buffer
\* allocated during the call has been freed exactly once: no buffer outlives
\* the call and none is freed twice, after any sequence of calls.
C23_BuffersFreedOnce ==
    /\ nfree <= nalloc
    /\ nalloc = nfree + Cardinality(live)
    /\ (~HoldsPacket => live = {} /\ pkt = NoPacket)
    /\ (HoldsPacket =>
          /\ live = (IF pkt.has_data THEN {"tlv_packet", "pkt_data"} ELSE {"tlv_packet"})
          /\ (InSubParser => pkt.has_data))

C23_Witness ==
    /\ pc = "read_ret" /\ Len(log) = 1 /\ log[1].ret = "OK"
    /\ ret = "AVERROR_INVALIDDATA" /\ err = "TooShort"
    /\ nalloc = 4 /\ nfree = 4 /\ live = {}

\* the parsers one tlv_read_packet can have called, in order
CallChains ==
    {<<>>, <<"hcfb">>, <<"sig">>, <<"sig", "nit">>, <<"sig", "ext">>, <<"sig", "ext", "amt">>}

\* C24: every parse terminates within a bound fixed by its input: the
\* remaining length of the NIT stream loop decreases by at least 6 per
\* iteration and never wraps below zero (at most tlv_stream_loop_length / 6
\* iterations), the AMT loop runs at most num_of_service_id iterations,
\* tlv_resync reads at most resync_limit bytes, and no parser runs twice in
\* one tlv_resync + tlv_read_packet cycle.
C24_ParsesBounded ==
    /\ i <= resync_limit
    /\ (pc \in {"tlv_resync", "resync_ret"} =>
          pos >= scan0 /\ pos - scan0 <= resync_limit /\ pos - scan0 <= i + 1)
    /\ Len(nit.entries) <= nit.tlv_stream_loop_length \div 6
    /\ \A k \in 1..Len(nit.entries) :
          /\ nit.entries[k].left_before >= 6 + nit.entries[k].descriptors_length
          /\ nit.entries[k].left_before
                = nit.tlv_stream_loop_length
                    - SumSeq([j \in 1..(k - 1) |-> 6 + nit.entries[j].descriptors_length])
    /\ (pc = "nit_loop" =>
          /\ left_length >= 0 /\ left_length <= nit.tlv_stream_loop_length
          /\ left_length = nit.tlv_stream_loop_length - NitEntrySum
          /\ left_length <= nit.tlv_stream_loop_length - 6 * Len(nit.entries))
    /\ amt.i <= amt.num_of_service_id /\ amt.i = Len(amt.mappings)
    /\ invoked \in CallChains

C24_Witness ==
    /\ pc = "nit_loop" /\ nit.tlv_stream_loop_length = 18
    /\ Len(nit.entries) = 3 /\ left_length = 0

\* C25: in an AMT section with several service entries the cursor advances
\* by exactly 4 + service_loop_length bytes per entry, whatever the
\* ip_version and however many address bytes were decoded: entry k+1's
\* service_id is read from the byte after entry k's service_loop_length
\* bytes, trailing reserved bytes are never interpreted, and on success
\* exactly num_of_service_id entries have been processed.
C25_AmtCursorRealigned ==
    AmtActed =>
        /\ \A k \in 1..Len(amt.mappings) :
              LET e == amt.mappings[k] IN
              /\ e.at = (IF k = 1 THEN 10
                         ELSE amt.mappings[k - 1].at + 4
                                + amt.mappings[k - 1].service_loop_length)
              /\ e.m.service_id = Payload[e.at + 1] * 256 + Payload[e.at + 2]
              /\ e.m.last < e.at + 4 + AmtMinLen(e.m.type)
              /\ (gen.kind = "amt" => e.m.service_id = 100 + k /\ e.m.type = gen.ents[k].ip)
        /\ (pc = "amt_loop" => gb_index = 8 * (10 + AmtAcceptedSum(Len(amt.mappings))))
        /\ (AmtFinished /\ ret = "OK" =>
              /\ Len(amt.mappings) = amt.num_of_service_id
              /\ amt.num_of_service_id = Payload[9] * 4 + Payload[10] \div 64)

C25_Witness ==
    /\ AmtFinished /\ ret = "OK" /\ Len(amt.mappings) = 2
    /\ amt.mappings[1].m.type = 0 /\ amt.mappings[1].service_loop_length = 11
    /\ amt.mappings[2].m.type = 1 /\ amt.mappings[2].m.service_id = 102
    /\ amt.mappings[2].at = 25

\* C26: mmtp_tlv_read_header never returns success: it repeats tlv_resync and
\* tlv_read_packet until one of them fails and returns that negative code.
\* Each successful iteration advances the position by at least 4 bytes, the
\* iterations follow one another in the stream with nothing but discarded
\* non-sync bytes between them, so on a finite stream the callback returns,
\* having consumed the stream up to the first failure or its end.
ReadHeaderInv ==
    api = "read_header" =>
        /\ result # "OK"
        /\ (pc = "closed") = (result # "none")
        /\ (pc = "closed" => result = ret /\ ret # "OK")
        /\ \A k \in 1..Len(log) :
              /\ (log[k].ret # "OK" => k = Len(log) /\ pc = "closed" /\ result = log[k].ret)
              /\ (log[k].ret = "OK" => log[k].end >= log[k].start + 4
                                        /\ log[k].start + 4 <= Len(stream))
              /\ (k > 1 => log[k].start >= log[k - 1].end
                            /\ NoSyncIn(log[k - 1].end, log[k].start - log[k - 1].end))
              /\ (k = 1 => NoSyncIn(0, log[k].start))
        /\ Cardinality({k \in 1..Len(log) : log[k].ret = "OK"}) <= Len(stream) \div 4
        /\ (pc = "closed" =>
              \/ /\ log # <<>> /\ log[Len(log)].ret # "OK"
                 /\ pos = log[Len(log)].end /\ scan0 <= log[Len(log)].start
              \/ /\ \A k \in 1..Len(log) : log[k].ret = "OK"
                 /\ err \in {"EndOfStream", "SyncNotFound"}
                 /\ scan0 = (IF log = <<>> THEN 0 ELSE log[Len(log)].end)
                 /\ NoSyncIn(scan0, pos - scan0)
                 /\ (err = "EndOfStream" => pos >= Len(stream))
                 /\ (err = "SyncNotFound" => pos = scan0 + resync_limit))

C26_ReadHeaderRunsToFailure ==
    /\ []ReadHeaderInv
    /\ ((api = "read_header") ~> (pc = "closed"))

C26_Witness ==
    /\ api = "read_header" /\ pc = "closed" /\ result = "AVERROR_EOF"
    /\ Len(log) = 2 /\ log[1].ret = "OK" /\ log[2].ret = "OK"
    /\ log[1].end > log[1].start + 4
    /\ pos = Len(stream)

\* C27: in the read cycle tlv_read_packet is only entered after a successful
\* tlv_resync, which has rewound the cursor onto the sync byte it found: the
\* header's byte 0 is always 0x7F and the bad-sync error never occurs. The
\* bytes other than 0x7F before the packet are passed over and leave no error.
C27_FramerStartsAtSync ==
    /\ err # "BadSync"
    /\ (pc = "resync_ret" /\ ret = "OK" =>
          /\ SyncAt(pos) /\ pos >= scan0 /\ NoSyncIn(scan0, pos - scan0)
          /\ err = "none")
    /\ (pc = "tlv_read_packet" =>
          /\ ret = "OK" /\ err = "none"
          /\ SyncAt(pos) /\ pos >= scan0 /\ NoSyncIn(scan0, pos - scan0))
    /\ (pc \in {"read_ret", "free", "hcfb", "sig", "ext", "nit", "nit_loop", "amt", "amt_loop"} =>
          /\ SyncAt(frame.start) /\ frame.start >= scan0
          /\ NoSyncIn(scan0, frame.start - scan0)
          /\ (frame.hdr = 4 => frame.sync = TLV_SYNC_BYTE))
    /\ \A k \in 1..Len(log) : SyncAt(log[k].start) /\ log[k].err # "BadSync"

C27_Witness ==
    /\ pc = "read_ret" /\ ret = "OK" /\ scan0 = 0 /\ frame.start = 2
    /\ stream[1] # TLV_SYNC_BYTE /\ stream[2] # TLV_SYNC_BYTE
    /\ frame.sync = TLV_SYNC_BYTE /\ pos = 6

\* the stream is a concatenation of packets that are all accepted
SeqGood == gen.kind = "seq" /\ \A k \in 1..Len(gen.pkts) : gen.pkts[k].good
\* the offset at which the k-th packet of the concatenation ends
RECURSIVE SeqEnd(_)
SeqEnd(k) == IF k = 0 THEN 0 ELSE SeqEnd(k - 1) + 4 + Len(gen.pkts[k].body)
\* the calls of tlv_read_packet that returned success, in order
IsSuccess(e) == e.ret = "OK"
Successes == SelectSeq(log, IsSuccess)
\* the k-th successful call framed the k-th packet of the concatenation
FramesInOrder ==
    \A k \in 1..Len(Successes) :
        /\ k <= Len(gen.pkts)
        /\ Successes[k].start = SeqEnd(k - 1)
        /\ Successes[k].end = SeqEnd(k)
        /\ stream[Successes[k].start + 2] = gen.pkts[k].ptype
NoAllocationFailed == \A k \in 1..Len(log) : log[k].ret # "AVERROR_ENOMEM"

C29_SyntaxIndicatorRequired ==
    TableActed =>
        /\ (Payload[2] < 128 =>
              /\ pc \in {"free", "read_ret"}
              /\ ret = "AVERROR_INVALIDDATA" /\ err = "TooShort"
              /\ gb_index = 64
              /\ nit = NoNit /\ amt = NoAmt /\ left_length = 0)
        /\ (pc \in {"nit_loop", "amt_loop"} \/ ret = "OK" =>
              Payload[2] >= 128 /\ sig.section_syntax_indicator = 1)

C29_Witness ==
    /\ TableActed /\ pc = "free" /\ invoked = <<"sig", "ext", "amt">>
    /\ Payload[2] < 128 /\ ret = "AVERROR_INVALIDDATA"
    /\ gen.kind = "amt" /\ gen.p = NoPerturb /\ Len(gen.ents) = 2
    /\ RawSectionLength = AmtSl(gen.ents, NoPerturb)

\* the four header bytes at position s are there and are rejected: byte 0 is
\* not the sync byte, or byte 1 is not a recognized packet type
HeaderRejected(s) ==
    /\ s + 4 <= Len(stream)
    /\ (stream[s + 1] # TLV_SYNC_BYTE \/ stream[s + 2] \notin RecognizedTypes)

\* C30: when tlv_read_packet rejects a header, exactly the 4 header bytes
\* have been consumed whatever length it declares, and nothing was allocated;
\* the next tlv_resync starts at the first payload byte and stops at the first
\* 0x7F from there, which may lie inside the rejected packet's payload.
C30_RejectedHeaderLeavesPayload ==
    /\ \A k \in 1..Len(log) :
          HeaderRejected(log[k].start) =>
              /\ log[k].ret = "AVERROR_INVALIDDATA"
              /\ log[k].err \in {"BadSync", "UnknownPacketType"}
              /\ log[k].end = log[k].start + 4
    /\ (pc = "read_ret" /\ HeaderRejected(frame.start) =>
          /\ pos = frame.start + 4 /\ ret = "AVERROR_INVALIDDATA"
          /\ invoked = <<>> /\ live = {} /\ pkt = NoPacket)
    /\ (/\ log # <<>> /\ HeaderRejected(log[Len(log)].start)
        /\ pc \in {"tlv_resync", "resync_ret"} /\ calls = log[Len(log)].call + 1
        => /\ api = "read_packet"
           /\ scan0 = log[Len(log)].start + 4
           /\ pos >= scan0 /\ NoSyncIn(scan0, pos - scan0)
           /\ (pc = "resync_ret" /\ ret = "OK" => SyncAt(pos)))

C30_Witness ==
    /\ log # <<>> /\ HeaderRejected(log[Len(log)].start)
    /\ HeaderLength(log[Len(log)].start) = 2
    /\ pc = "resync_ret" /\ ret = "OK" /\ calls = log[Len(log)].call + 1
    /\ pos = log[Len(log)].start + 5
    /\ pos < log[Len(log)].start + 4 + HeaderLength(log[Len(log)].start)

====
